---------------------------- MODULE Spec2Model ----------------------------
(***************************************************************************)
(* A state-machine model of imxrt1052_can_utility.py: the port resolver    *)
(* (get_device_port), the device configurator (configure_can), the payload *)
(* generator (inc_dec_data_string) and the session controller (main) with  *)
(* its try / except / finally discipline.                                  *)
(*                                                                         *)
(* Text whose characters the code inspects (hardware ids, locations) is a  *)
(* sequence of one-character strings; text the code only builds and hands  *)
(* on (the control-port command lines, the payload) is a TLA+ string.      *)
(***************************************************************************)
EXTENDS Integers, Sequences, FiniteSets, TLC

VARIABLES
    all_ports,      \* what system_ports.comports() returns (unsorted list)
    max_iter,       \* how many loop iterations the observed session may begin
    USE_ARGPARSE,   \* the script's configuration switch (line 72)
    argv,           \* the requested configuration (CLI, or the edited defaults)
    pc,             \* position of the control flow
    mode, bit_rate, \* main's locals
    mgmt_port, can1_port, can2_port,
    port, bus1, bus2,
    interface,      \* configure_can's parameter during a call
    number, is_increment, data, message,
    writes,         \* bytes written to the control port, in order
    configured,     \* the interfaces for which configure_can has returned
    exc,            \* the exception that ended the try body
    pending,        \* an exception that propagates once finally is through
    escaped,        \* the exception that left main, if one did
    exit_status,    \* the process's exit status
    reports,        \* the kinds of message printed so far
    log,            \* the teardown steps attempted, in order
    iter,           \* loop iterations begun
    n_sent, n_recv1, n_recv2,   \* successful sends on bus1, receives on bus1 / bus2
    n_rep_sent, n_rep_recv,     \* 'Sent:' and 'Received:' reports printed
    r_dev_id, r_location, r_ret, \* a single call of get_device_port and its result
    g_args, g_ret   \* a single call of inc_dec_data_string and its result

vars == << all_ports, max_iter, USE_ARGPARSE, argv, pc, mode, bit_rate,
           mgmt_port, can1_port, can2_port, port, bus1, bus2, interface,
           number, is_increment, data, message, writes, configured, exc, pending,
           escaped, exit_status, reports, log, iter, n_sent, n_recv1, n_recv2,
           n_rep_sent, n_rep_recv, r_dev_id, r_location, r_ret, g_args, g_ret >>

---------------------------------------------------------------------------
(* Bounds of the model *)

\* loop iterations a session may begin
MaxIter == 3

\* ports in a list handed to a single get_device_port call
MaxPorts == 3

\* the largest upper bound handed to a single inc_dec_data_string call
GenMaxHigh == 9

\* loop iterations of a session observed over more than a period of the generator
MaxIterLong == 20

---------------------------------------------------------------------------
(* Values *)

\* Python's None, where a text or a device path may be missing
None == <<"None">>

\* Python truthiness of an optional text / path: None and '' are falsy
Truthy(x) == x # None /\ x # <<>>

\* Python's `sub in s` on text
Contains(sub, s) ==
    \E i \in 0..(Len(s) - Len(sub)) : SubSeq(s, i + 1, i + Len(sub)) = sub

MCU_VID_PID == <<"3","5","3","F",":","A","1","0","3">>

DEFAULT_MODE == "loopback"

DEFAULT_BITRATE == 1000

valid_bit_rates == <<10, 20, 50, 100, 125, 250, 500, 750, 1000>>

\* `x in valid_bit_rates`
InList(x, list) == \E i \in 1..Len(list) : list[i] = x

\* the -m choices of parse_arguments
mode_choices == <<"send", "recv", "loopback">>

\* the location markers main asks for
MGMT_LOCATION == <<".","0">>

CAN1_LOCATION == <<".","2">>

CAN2_LOCATION == <<".","4">>

---------------------------------------------------------------------------
(* The attached ports: records [device, hwid, location].  A device path is *)
(* <<"ttyACM", n>>; ListPortInfo orders ports by the natural order of the  *)
(* device path, which for one prefix is the order of n.                    *)

Device(n) == <<"ttyACM", n>>

HWID_MCU == <<"U","S","B"," ","V","I","D",":","P","I","D","=">> \o MCU_VID_PID

HWID_OTHER == <<"U","S","B"," ","V","I","D",":","P","I","D","=","0","4","0","3",":","6","0","0","1">>

HWID_NA == <<"n","/","a">>

LOC_0 == <<"1","-","1",":","1",".","0">>

LOC_2 == <<"1","-","1",":","1",".","2">>

LOC_4 == <<"1","-","1",":","1",".","4">>

PortInfo(n, hwid, location) == [device |-> Device(n), hwid |-> hwid, location |-> location]

\* ListPortInfo.__lt__
PortLess(p, q) == p.device[2] < q.device[2]

\* sorted(all_ports): repeatedly take the least port
RECURSIVE SortedFrom(_)
SortedFrom(S) ==
    IF S = {} THEN <<>>
    ELSE LET least == CHOOSE p \in S : \A q \in S \ {p} : PortLess(p, q)
         IN  <<least>> \o SortedFrom(S \ {least})

sorted(ports) == SortedFrom({ports[i] : i \in 1..Len(ports)})

\* the for loop of get_device_port from position i of the sorted list:
\* [raised, value], raised when `location in port.location` meets a None location
RECURSIVE ScanPorts(_, _, _, _)
ScanPorts(dev_id, location, s, i) ==
    IF i > Len(s) THEN [raised |-> FALSE, value |-> None]
    ELSE IF ~Contains(dev_id, s[i].hwid) THEN ScanPorts(dev_id, location, s, i + 1)
    ELSE IF ~Truthy(location) THEN ScanPorts(dev_id, location, s, i + 1)
    ELSE IF s[i].location = None THEN [raised |-> TRUE, value |-> None]
    ELSE IF Contains(location, s[i].location) THEN [raised |-> FALSE, value |-> s[i].device]
    ELSE ScanPorts(dev_id, location, s, i + 1)

get_device_port(dev_id, location, ports) == ScanPorts(dev_id, location, sorted(ports), 1)


---------------------------------------------------------------------------
(* The payload generator and the frame *)

\* f'hello_{number}'
PayloadText(n) == "hello_" \o ToString(n)

\* the generator without the test of the lower bound
inc_dec_data_string_NoFloor(n, inc, low, high) ==
    LET dir == IF n = high THEN FALSE ELSE inc
        m   == IF dir THEN n + 1 ELSE n - 1
    IN  <<m, dir, PayloadText(m)>>

\* the generator turning only once it is past the upper bound
inc_dec_data_string_TurnsLate(n, inc, low, high) ==
    LET dir == IF n = low THEN TRUE ELSE IF n > high THEN FALSE ELSE inc
        m   == IF dir THEN n + 1 ELSE n - 1
    IN  <<m, dir, PayloadText(m)>>

\* inc_dec_data_string(number, is_increment, low, high): <<number, is_increment, data>>
inc_dec_data_string(n, inc, low, high) ==
    LET dir == IF n = low THEN TRUE ELSE IF n = high THEN FALSE ELSE inc
        m   == IF dir THEN n + 1 ELSE n - 1
    IN  <<m, dir, PayloadText(m)>>

\* the defaults low=0, high=9 of inc_dec_data_string
GEN_LOW == 0

GEN_HIGH == 9

\* arbitration_id=0x123
ARBITRATION_ID == 291

\* the longest payload can.Message accepts for a classic CAN frame
CAN_MAX_DLEN == 8

\* can.Message(timestamp=..., arbitration_id=0x123, is_extended_id=True, data=...)
Message(payload) ==
    [arbitration_id |-> ARBITRATION_ID, is_extended_id |-> TRUE, data |-> payload]

NoMessage == [arbitration_id |-> 0, is_extended_id |-> FALSE, data |-> ""]

\* a channel handle: None until can.Bus(...) returns
NoBus == [state |-> "None", channel |-> None, bitrate |-> 0]

\* can.Bus(interface='slcan', channel=..., bitrate=bit_rate*1000)
Bus(channel, bitrate) == [state |-> "open", channel |-> channel, bitrate |-> bitrate]

\* the bitrate handed on in kbps, the factor forgotten
BitrateBps_Kbps(kbps) == kbps

\* bit_rate*1000
BitrateBps(kbps) == kbps * 1000

\* the two command lines of configure_can
ModeCommand(ifc, m) == "set can-mode " \o ifc \o " " \o m \o "\r\n"

BaudCommand(ifc, baud) == "set can-baudrate " \o ifc \o " " \o baud \o "\r\n"

\* str(bit_rate)
str(n) == ToString(n)

NoException == [type |-> "none", at |-> "none", what |-> "none"]

\* no call of inc_dec_data_string under observation
NoArgs == [number |-> 0, is_increment |-> TRUE, low |-> 0, high |-> 0]

---------------------------------------------------------------------------
(* Groups of variables *)

envv  == << all_ports, max_iter, USE_ARGPARSE, argv >>
resv  == << r_dev_id, r_location, r_ret, g_args, g_ret >>
cfgv  == << mode, bit_rate >>
pathv == << mgmt_port, can1_port, can2_port >>
handv == << port, bus1, bus2 >>
genv  == << number, is_increment, data, message >>
serv  == << writes, configured, interface >>
cntv  == << iter, n_sent, n_recv1, n_recv2, n_rep_sent, n_rep_recv >>
endv  == << exc, pending, escaped, exit_status, reports, log >>

---------------------------------------------------------------------------
(* Inputs *)

\* the mode requested: <<>> when -m is not given
ModeArgs == {<<>>, <<"send">>, <<"recv">>, <<"loopback">>, <<"bogus">>}

\* the bitrate requested: <<>> when -b is not given
BitrateArgs == {<<>>, <<10>>, <<1000>>, <<800>>, <<0>>}

\* the ports a session may find attached, besides the adapter's three:
\* a port of another device, and a port of the adapter that reports no location
MGMT_INFO  == PortInfo(1, HWID_MCU, LOC_0)
CAN1_INFO  == PortInfo(2, HWID_MCU, LOC_2)
CAN2_INFO  == PortInfo(3, HWID_MCU, LOC_4)
OTHER_INFO == PortInfo(0, HWID_OTHER, LOC_0)
NOLOC_INFO == PortInfo(4, HWID_MCU, None)

SessionPorts == {MGMT_INFO, CAN1_INFO, CAN2_INFO, OTHER_INFO, NOLOC_INFO}

\* a set of ports as comports() may list it: here in descending device order
RECURSIVE Listed(_)
Listed(S) ==
    IF S = {} THEN <<>>
    ELSE LET last == CHOOSE p \in S : \A q \in S \ {p} : PortLess(q, p)
         IN  <<last>> \o Listed(S \ {last})

SessionPortLists == {Listed(S) : S \in SUBSET SessionPorts}

---------------------------------------------------------------------------
(* main: argument parsing, validation and port resolution (lines 129-162) *)

Init ==
    /\ all_ports \in SessionPortLists
    /\ USE_ARGPARSE \in BOOLEAN
    /\ argv \in [m : ModeArgs, b : BitrateArgs]
    \* with USE_ARGPARSE off the request is the edited DEFAULT_MODE / DEFAULT_BITRATE
    /\ ~USE_ARGPARSE => (argv.m # <<>> /\ argv.b # <<>> /\ InList(argv.m[1], mode_choices))
    /\ pc = "parse"
    /\ mode = "" /\ bit_rate = -1
    /\ mgmt_port = None /\ can1_port = None /\ can2_port = None
    /\ port = "None" /\ bus1 = NoBus /\ bus2 = NoBus
    /\ interface = ""
    /\ number = 0 /\ is_increment = TRUE /\ data = "" /\ message = NoMessage
    /\ writes = <<>> /\ configured = {}
    /\ exc = NoException /\ pending = NoException /\ escaped = NoException
    /\ exit_status = -1 /\ reports = {} /\ log = <<>>
    /\ iter = 0 /\ n_sent = 0 /\ n_recv1 = 0 /\ n_recv2 = 0
    /\ n_rep_sent = 0 /\ n_rep_recv = 0
    /\ r_dev_id = <<>> /\ r_location = <<>> /\ r_ret = [raised |-> FALSE, value |-> None]
    /\ g_args = NoArgs /\ g_ret = <<>>
    /\ max_iter = MaxIter

\* an exception of the given type raised by the statement at pc
Raised(type, what) == [type |-> type, at |-> pc, what |-> what]

\* the process ends with `status`, having printed `what`, as `e` leaves main
Exit(status, what, e) ==
    /\ pc' = "done"
    /\ exit_status' = status
    /\ reports' = reports \cup {what}
    /\ escaped' = e

\* sys.exit(1) after an error message
SysExit(what) == Exit(1, what, Raised("SystemExit", "1")) /\ UNCHANGED << exc, pending, log >>

\* parse_arguments(): argparse takes the defaults for options not given and
\* rejects (status 2) a value outside an option's choices
Parse ==
    /\ pc = "parse"
    /\ LET m == IF USE_ARGPARSE /\ argv.m = <<>> THEN DEFAULT_MODE ELSE argv.m[1]
           b == IF USE_ARGPARSE /\ argv.b = <<>> THEN DEFAULT_BITRATE ELSE argv.b[1]
       IN  IF USE_ARGPARSE /\ ~(InList(m, mode_choices) /\ InList(b, valid_bit_rates))
           THEN /\ Exit(2, "usage", Raised("SystemExit", "2"))
                /\ UNCHANGED << cfgv, exc, pending, log >>
           ELSE /\ mode' = m
                /\ bit_rate' = b
                /\ pc' = "check_bitrate"
                /\ UNCHANGED endv
    /\ UNCHANGED << envv, resv, pathv, handv, genv, serv, cntv >>

\* the bitrate check left out
CheckBitrate_Unchecked ==
    /\ pc = "check_bitrate"
    /\ pc' = "resolve_mgmt"
    /\ UNCHANGED << envv, resv, cfgv, pathv, handv, genv, serv, cntv, endv >>

\* if bit_rate not in valid_bit_rates: ... sys.exit(1)
CheckBitrate ==
    /\ pc = "check_bitrate"
    /\ IF ~InList(bit_rate, valid_bit_rates)
       THEN SysExit("Error: Invalid bit_rate")
       ELSE pc' = "resolve_mgmt" /\ UNCHANGED endv
    /\ UNCHANGED << envv, resv, cfgv, pathv, handv, genv, serv, cntv >>

\* an exception nothing catches: traceback, status 1
Uncaught == Exit(1, "Traceback", Raised("Exception", "TypeError")) /\ UNCHANGED << exc, pending, log >>

\* mgmt_port = get_device_port(MCU_VID_PID, ".0")
ResolveMgmt ==
    /\ pc = "resolve_mgmt"
    /\ LET r == get_device_port(MCU_VID_PID, MGMT_LOCATION, all_ports)
       IN  IF r.raised
           THEN Uncaught /\ UNCHANGED pathv
           ELSE /\ mgmt_port' = r.value
                /\ pc' = "resolve_can1"
                /\ UNCHANGED << can1_port, can2_port, endv >>
    /\ UNCHANGED << envv, resv, cfgv, handv, genv, serv, cntv >>

\* can1_port = get_device_port(MCU_VID_PID, ".2")
ResolveCan1 ==
    /\ pc = "resolve_can1"
    /\ LET r == get_device_port(MCU_VID_PID, CAN1_LOCATION, all_ports)
       IN  IF r.raised
           THEN Uncaught /\ UNCHANGED pathv
           ELSE /\ can1_port' = r.value
                /\ pc' = "resolve_can2"
                /\ UNCHANGED << mgmt_port, can2_port, endv >>
    /\ UNCHANGED << envv, resv, cfgv, handv, genv, serv, cntv >>

\* can2_port = get_device_port(MCU_VID_PID, ".4")
ResolveCan2 ==
    /\ pc = "resolve_can2"
    /\ LET r == get_device_port(MCU_VID_PID, CAN2_LOCATION, all_ports)
       IN  IF r.raised
           THEN Uncaught /\ UNCHANGED pathv
           ELSE /\ can2_port' = r.value
                /\ pc' = "check_mgmt"
                /\ UNCHANGED << mgmt_port, can1_port, endv >>
    /\ UNCHANGED << envv, resv, cfgv, handv, genv, serv, cntv >>

\* if not mgmt_port: ... sys.exit(1)
CheckMgmt ==
    /\ pc = "check_mgmt"
    /\ IF ~Truthy(mgmt_port)
       THEN SysExit("Error: MCU management port not found")
       ELSE pc' = "check_can" /\ UNCHANGED endv
    /\ UNCHANGED << envv, resv, cfgv, pathv, handv, genv, serv, cntv >>

\* the channel paths required for loopback only, the elif left out
CheckCan_LoopbackOnly ==
    /\ pc = "check_can"
    /\ IF mode \in {"loopback"} /\ ~(Truthy(can1_port) /\ Truthy(can2_port))
       THEN SysExit("Error: CAN ports necessary for loopback not found") /\ UNCHANGED handv
       ELSE /\ port' = "None" /\ bus1' = NoBus /\ bus2' = NoBus
            /\ pc' = "open_port"
            /\ UNCHANGED endv
    /\ UNCHANGED << envv, resv, cfgv, pathv, genv, serv, cntv >>

\* the mode's requirement on the channel paths (lines 155-160), then
\* port, bus1, bus2 = None, None, None
CheckCan ==
    /\ pc = "check_can"
    /\ IF mode \in {"loopback"} /\ ~(Truthy(can1_port) /\ Truthy(can2_port))
       THEN SysExit("Error: CAN ports necessary for loopback not found") /\ UNCHANGED handv
       ELSE IF mode \in {"send", "recv"} /\ ~(Truthy(can1_port) /\ Truthy(can2_port))
       THEN SysExit("Error: CAN ports necessary for this script") /\ UNCHANGED handv
       ELSE /\ port' = "None" /\ bus1' = NoBus /\ bus2' = NoBus
            /\ pc' = "open_port"
            /\ UNCHANGED endv
    /\ UNCHANGED << envv, resv, cfgv, pathv, genv, serv, cntv >>

---------------------------------------------------------------------------
(* main: the try body up to the loop (lines 163-194) *)

\* one handler for everything: Ctrl+C caught by the general clause
RaiseInTry_OneHandler(type, what) ==
    /\ pc' = "except_exc"
    /\ exc' = Raised(type, what)
    /\ UNCHANGED << pending, escaped, exit_status, reports, log >>

\* an exception raised by the statement at pc inside the try body:
\* control goes to the matching except clause
RaiseInTry(type, what) ==
    /\ pc' = IF type = "KeyboardInterrupt" THEN "except_kbd" ELSE "except_exc"
    /\ exc' = Raised(type, what)
    /\ UNCHANGED << pending, escaped, exit_status, reports, log >>

\* port = serial.Serial(mgmt_port)
OpenPort ==
    /\ pc = "open_port"
    /\ \/ /\ port' = "open"
          /\ pc' = "write_nl"
          /\ UNCHANGED endv
       \/ /\ RaiseInTry("Exception", "SerialException")
          /\ UNCHANGED port
    /\ UNCHANGED << envv, resv, cfgv, pathv, bus1, bus2, genv, serv, cntv >>

\* port.write(...); an unbound or closed port raises
PortWrite(bytes, next) ==
    \/ /\ port = "open"
       /\ writes' = Append(writes, bytes)
       /\ pc' = next
       /\ UNCHANGED endv
    \/ /\ RaiseInTry("Exception", "SerialException")
       /\ UNCHANGED writes

\* port.write(b'\r\n'); time.sleep(0.1)
WriteNL ==
    /\ pc = "write_nl"
    /\ PortWrite("\r\n", "drain")
    /\ UNCHANGED << envv, resv, cfgv, pathv, handv, genv, configured, interface, cntv >>

\* port.read(port.inWaiting()), then the first call of configure_can
Drain ==
    /\ pc = "drain"
    /\ \/ /\ port = "open"
          /\ interface' = "VCAN1"
          /\ pc' = "cfg_mode"
          /\ UNCHANGED endv
       \/ /\ RaiseInTry("Exception", "SerialException")
          /\ UNCHANGED interface
    /\ UNCHANGED << envv, resv, cfgv, pathv, handv, genv, writes, configured, cntv >>

\* configure_can: port.write(f'set can-mode {interface} {mode}\r\n'.encode()),
\* called with mode 'slcan'
CfgMode ==
    /\ pc = "cfg_mode"
    /\ PortWrite(ModeCommand(interface, "slcan"), "cfg_baud")
    /\ UNCHANGED << envv, resv, cfgv, pathv, handv, genv, configured, interface, cntv >>

\* configure_can: port.write(f'set can-baudrate {interface} {baud}\r\n'.encode()),
\* called with baud str(bit_rate)
CfgBaud ==
    /\ pc = "cfg_baud"
    /\ PortWrite(BaudCommand(interface, str(bit_rate)), "cfg_read")
    /\ UNCHANGED << envv, resv, cfgv, pathv, handv, genv, configured, interface, cntv >>

\* main calling configure_can for VCAN1 only
CfgRead_OnlyFirst ==
    /\ pc = "cfg_read"
    /\ \/ /\ port = "open"
          /\ configured' = configured \cup {interface}
          /\ interface' = "" /\ pc' = "open_bus1"
          /\ UNCHANGED endv
       \/ /\ RaiseInTry("Exception", "SerialException")
          /\ UNCHANGED << configured, interface >>
    /\ UNCHANGED << envv, resv, cfgv, pathv, handv, genv, writes, cntv >>

\* configure_can: print(port.read(port.inWaiting()).decode()) and return;
\* main goes on to the second call, or to opening the channels
CfgRead ==
    /\ pc = "cfg_read"
    /\ \/ /\ port = "open"
          /\ configured' = configured \cup {interface}
          /\ IF interface = "VCAN1"
             THEN interface' = "VCAN2" /\ pc' = "cfg_mode"
             ELSE interface' = "" /\ pc' = "open_bus1"
          /\ UNCHANGED endv
       \/ /\ RaiseInTry("Exception", "SerialException")
          /\ UNCHANGED << configured, interface >>
    /\ UNCHANGED << envv, resv, cfgv, pathv, handv, genv, writes, cntv >>

\* if can1_port: bus1 = can.Bus(interface='slcan', channel=can1_port, bitrate=bit_rate*1000)
OpenBus1 ==
    /\ pc = "open_bus1"
    /\ IF Truthy(can1_port)
       THEN \/ /\ bus1' = Bus(can1_port, BitrateBps(bit_rate))
               /\ pc' = "open_bus2"
               /\ UNCHANGED endv
            \/ /\ RaiseInTry("Exception", "CanInitializationError")
               /\ UNCHANGED bus1
       ELSE pc' = "open_bus2" /\ UNCHANGED << bus1, endv >>
    /\ UNCHANGED << envv, resv, cfgv, pathv, port, bus2, genv, serv, cntv >>

\* channel-2 opened only for the mode that uses it
OpenBus2_LoopbackOnly ==
    /\ pc = "open_bus2"
    /\ IF Truthy(can2_port) /\ mode = "loopback"
       THEN \/ /\ bus2' = Bus(can2_port, BitrateBps(bit_rate))
               /\ pc' = "start"
               /\ UNCHANGED endv
            \/ /\ RaiseInTry("Exception", "CanInitializationError")
               /\ UNCHANGED bus2
       ELSE pc' = "start" /\ UNCHANGED << bus2, endv >>
    /\ UNCHANGED << envv, resv, cfgv, pathv, port, bus1, genv, serv, cntv >>

\* if can2_port: bus2 = can.Bus(interface='slcan', channel=can2_port, bitrate=bit_rate*1000)
OpenBus2 ==
    /\ pc = "open_bus2"
    /\ IF Truthy(can2_port)
       THEN \/ /\ bus2' = Bus(can2_port, BitrateBps(bit_rate))
               /\ pc' = "start"
               /\ UNCHANGED endv
            \/ /\ RaiseInTry("Exception", "CanInitializationError")
               /\ UNCHANGED bus2
       ELSE pc' = "start" /\ UNCHANGED << bus2, endv >>
    /\ UNCHANGED << envv, resv, cfgv, pathv, port, bus1, genv, serv, cntv >>

\* print("Starting CAN bus mode ..."); number = 0; is_increment = True
Start ==
    /\ pc = "start"
    /\ number' = 0
    /\ is_increment' = TRUE
    /\ pc' = "loop"
    /\ UNCHANGED << envv, resv, cfgv, pathv, handv, data, message, serv, cntv, endv >>

---------------------------------------------------------------------------
(* main: the loop (lines 196-238) *)

\* the dispatch taking every mode but recv through the loopback branch
Loop_SendAsLoopback ==
    /\ pc = "loop"
    /\ iter < max_iter
    /\ iter' = iter + 1
    /\ pc' = CASE mode = "recv"     -> "recv_recv"
               [] mode = "send"     -> "lb_build"
               [] mode = "loopback" -> "lb_build"
               [] OTHER             -> "loop"
    /\ UNCHANGED << envv, resv, cfgv, pathv, handv, genv, serv, endv,
                    n_sent, n_recv1, n_recv2, n_rep_sent, n_rep_recv >>

\* while True, and the dispatch on mode
Loop ==
    /\ pc = "loop"
    /\ iter < max_iter
    /\ iter' = iter + 1
    /\ pc' = CASE mode = "send"     -> "send_build"
               [] mode = "recv"     -> "recv_recv"
               [] mode = "loopback" -> "lb_build"
               [] OTHER             -> "loop"
    /\ UNCHANGED << envv, resv, cfgv, pathv, handv, genv, serv, endv,
                    n_sent, n_recv1, n_recv2, n_rep_sent, n_rep_recv >>

\* number, is_increment, data = inc_dec_data_string(number, is_increment);
\* message = can.Message(...), which refuses a payload longer than a frame holds
Build(next) ==
    LET r == inc_dec_data_string(number, is_increment, GEN_LOW, GEN_HIGH)
    IN  /\ number' = r[1]
        /\ is_increment' = r[2]
        /\ data' = r[3]
        /\ IF Len(r[3]) > CAN_MAX_DLEN
           THEN RaiseInTry("Exception", "ValueError") /\ UNCHANGED message
           ELSE message' = Message(r[3]) /\ pc' = next /\ UNCHANGED endv

\* a send whose timeout is caught next to the call, noted, and the loop goes on
Bus1Send_TimeoutTolerated(next) ==
    IF bus1.state = "open"
    THEN \/ /\ n_sent' = n_sent + 1
            /\ pc' = next
            /\ UNCHANGED endv
         \/ /\ exc' = Raised("Exception", "SendTimeout")
            /\ pc' = next
            /\ UNCHANGED << n_sent, pending, escaped, exit_status, reports, log >>
         \/ /\ RaiseInTry("Exception", "CanOperationError")
            /\ UNCHANGED n_sent
    ELSE RaiseInTry("Exception", "AttributeError") /\ UNCHANGED n_sent

\* bus1.send(message, timeout=0.2): returns, or raises on a timeout or a bus error;
\* a handle that is None or shut down raises
Bus1Send(next) ==
    IF bus1.state = "open"
    THEN \/ /\ n_sent' = n_sent + 1
            /\ pc' = next
            /\ UNCHANGED endv
         \/ /\ \E what \in {"SendTimeout", "CanOperationError"} : RaiseInTry("Exception", what)
            /\ UNCHANGED n_sent
    ELSE RaiseInTry("Exception", "AttributeError") /\ UNCHANGED n_sent

SendBuild ==
    /\ pc = "send_build"
    /\ Build("send_send")
    /\ UNCHANGED << envv, resv, cfgv, pathv, handv, serv, cntv >>

SendSend ==
    /\ pc = "send_send"
    /\ Bus1Send("send_report")
    /\ UNCHANGED << envv, resv, cfgv, pathv, handv, genv, serv,
                    iter, n_recv1, n_recv2, n_rep_sent, n_rep_recv >>

\* print(f"Sent: {message}"); time.sleep(0.1)
SendReport ==
    /\ pc = "send_report"
    /\ n_rep_sent' = n_rep_sent + 1
    /\ pc' = "loop"
    /\ UNCHANGED << envv, resv, cfgv, pathv, handv, genv, serv, endv,
                    iter, n_sent, n_recv1, n_recv2, n_rep_recv >>

\* received_msg = bus1.recv()
RecvRecv ==
    /\ pc = "recv_recv"
    /\ IF bus1.state = "open"
       THEN \/ /\ n_recv1' = n_recv1 + 1
               /\ pc' = "recv_report"
               /\ UNCHANGED endv
            \/ /\ RaiseInTry("Exception", "CanOperationError")
               /\ UNCHANGED n_recv1
       ELSE RaiseInTry("Exception", "AttributeError") /\ UNCHANGED n_recv1
    /\ UNCHANGED << envv, resv, cfgv, pathv, handv, genv, serv,
                    iter, n_sent, n_recv2, n_rep_sent, n_rep_recv >>

\* print(f"Received: {received_msg}")
RecvReport ==
    /\ pc = "recv_report"
    /\ n_rep_recv' = n_rep_recv + 1
    /\ pc' = "loop"
    /\ UNCHANGED << envv, resv, cfgv, pathv, handv, genv, serv, endv,
                    iter, n_sent, n_recv1, n_recv2, n_rep_sent >>

LbBuild ==
    /\ pc = "lb_build"
    /\ Build("lb_report_sent")
    /\ UNCHANGED << envv, resv, cfgv, pathv, handv, serv, cntv >>

\* print(f"Sent: {message}"), which loopback does before the send
LbReportSent ==
    /\ pc = "lb_report_sent"
    /\ n_rep_sent' = n_rep_sent + 1
    /\ pc' = "lb_send"
    /\ UNCHANGED << envv, resv, cfgv, pathv, handv, genv, serv, endv,
                    iter, n_sent, n_recv1, n_recv2, n_rep_recv >>

LbSend ==
    /\ pc = "lb_send"
    /\ Bus1Send("lb_recv")
    /\ UNCHANGED << envv, resv, cfgv, pathv, handv, genv, serv,
                    iter, n_recv1, n_recv2, n_rep_sent, n_rep_recv >>

\* a receive that gives up waiting and returns without a frame
LbRecv_ReturnsEmpty ==
    /\ pc = "lb_recv"
    /\ IF bus2.state = "open"
       THEN \/ /\ n_recv2' = n_recv2 + 1
               /\ pc' = "lb_report_recv"
               /\ UNCHANGED endv
            \/ /\ pc' = "lb_report_recv"
               /\ UNCHANGED << n_recv2, endv >>
            \/ /\ RaiseInTry("Exception", "CanOperationError")
               /\ UNCHANGED n_recv2
       ELSE RaiseInTry("Exception", "AttributeError") /\ UNCHANGED n_recv2
    /\ UNCHANGED << envv, resv, cfgv, pathv, handv, genv, serv,
                    iter, n_sent, n_recv1, n_rep_sent, n_rep_recv >>

\* received_msg = bus2.recv()
LbRecv ==
    /\ pc = "lb_recv"
    /\ IF bus2.state = "open"
       THEN \/ /\ n_recv2' = n_recv2 + 1
               /\ pc' = "lb_report_recv"
               /\ UNCHANGED endv
            \/ /\ RaiseInTry("Exception", "CanOperationError")
               /\ UNCHANGED n_recv2
       ELSE RaiseInTry("Exception", "AttributeError") /\ UNCHANGED n_recv2
    /\ UNCHANGED << envv, resv, cfgv, pathv, handv, genv, serv,
                    iter, n_sent, n_recv1, n_rep_sent, n_rep_recv >>

\* print(f"Received: {received_msg}"); time.sleep(0.1)
LbReportRecv ==
    /\ pc = "lb_report_recv"
    /\ n_rep_recv' = n_rep_recv + 1
    /\ pc' = "loop"
    /\ UNCHANGED << envv, resv, cfgv, pathv, handv, genv, serv, endv,
                    iter, n_sent, n_recv1, n_recv2, n_rep_sent >>

---------------------------------------------------------------------------
(* main: the except clauses and the finally block (lines 240-261) *)

\* except KeyboardInterrupt: print("\nOperation terminated by user.")
ExceptKbd ==
    /\ pc = "except_kbd"
    /\ reports' = reports \cup {"Operation terminated by user"}
    /\ pc' = "fin_sleep"
    /\ UNCHANGED << envv, resv, cfgv, pathv, handv, genv, serv, cntv,
                    exc, pending, escaped, exit_status, log >>

\* except Exception as e: print(f"An error occurred: {e}")
ExceptExc ==
    /\ pc = "except_exc"
    /\ reports' = reports \cup {"An error occurred"}
    /\ pc' = "fin_sleep"
    /\ UNCHANGED << envv, resv, cfgv, pathv, handv, genv, serv, cntv,
                    exc, pending, escaped, exit_status, log >>

\* a teardown step attempted, and whether it returned
Step(name, ok) == [step |-> name, ok |-> ok]

\* time.sleep(1)
FinSleep ==
    /\ pc = "fin_sleep"
    /\ log' = Append(log, Step("sleep", TRUE))
    /\ pc' = "fin_port"
    /\ UNCHANGED << envv, resv, cfgv, pathv, handv, genv, serv, cntv,
                    exc, pending, escaped, exit_status, reports >>

\* the test of the port inverted
FinPort_Inverted ==
    /\ pc = "fin_port"
    /\ pc' = IF port # "None" /\ port = "open" THEN "fin_bus1" ELSE "fin_reset_in"
    /\ UNCHANGED << envv, resv, cfgv, pathv, handv, genv, serv, cntv, endv >>

\* if port and port.is_open:
FinPort ==
    /\ pc = "fin_port"
    /\ pc' = IF port # "None" /\ port = "open" THEN "fin_reset_in" ELSE "fin_bus1"
    /\ UNCHANGED << envv, resv, cfgv, pathv, handv, genv, serv, cntv, endv >>

\* a statement of the inner try: it returns, or raises an Exception that
\* `except Exception: pass` swallows, skipping the rest of the inner try
InnerTry(name, next) ==
    \/ /\ log' = Append(log, Step(name, TRUE))
       /\ pc' = next
    \/ /\ log' = Append(log, Step(name, FALSE))
       /\ pc' = "fin_bus1"

\* the reset outside any try: its exception leaves main
FinResetIn_Unguarded ==
    /\ pc = "fin_reset_in"
    /\ \/ /\ log' = Append(log, Step("reset_input_buffer", TRUE))
          /\ pc' = "fin_reset_out"
          /\ UNCHANGED << exc, pending, escaped, exit_status, reports >>
       \/ /\ log' = Append(log, Step("reset_input_buffer", FALSE))
          /\ Exit(1, "Traceback", Raised("Exception", "reset_input_buffer"))
          /\ UNCHANGED << exc, pending >>
    /\ UNCHANGED << envv, resv, cfgv, pathv, handv, genv, serv, cntv >>

\* port.reset_input_buffer()
FinResetIn ==
    /\ pc = "fin_reset_in"
    /\ InnerTry("reset_input_buffer", "fin_reset_out")
    /\ UNCHANGED << envv, resv, cfgv, pathv, handv, genv, serv, cntv,
                    exc, pending, escaped, exit_status, reports >>

\* port.reset_output_buffer()
FinResetOut ==
    /\ pc = "fin_reset_out"
    /\ InnerTry("reset_output_buffer", "fin_close")
    /\ UNCHANGED << envv, resv, cfgv, pathv, handv, genv, serv, cntv,
                    exc, pending, escaped, exit_status, reports >>

\* port.close(): the port is closed when it returns
FinClose ==
    /\ pc = "fin_close"
    /\ InnerTry("close", "fin_bus1")
    /\ port' = IF log'[Len(log')].ok THEN "closed" ELSE port
    /\ UNCHANGED << envv, resv, cfgv, pathv, bus1, bus2, genv, serv, cntv,
                    exc, pending, escaped, exit_status, reports >>

\* an exception raised in the finally block outside the inner try leaves main
EscapeFinally(name) ==
    /\ log' = Append(log, Step(name, FALSE))
    /\ Exit(1, "Traceback", Raised("Exception", name))
    /\ UNCHANGED << exc, pending >>

\* if bus1: bus1.shutdown()
FinBus1 ==
    /\ pc = "fin_bus1"
    /\ IF bus1.state # "None"
       THEN \/ /\ bus1' = [bus1 EXCEPT !.state = "shutdown"]
               /\ log' = Append(log, Step("bus1.shutdown", TRUE))
               /\ pc' = "fin_bus2"
               /\ UNCHANGED << exc, pending, escaped, exit_status, reports >>
            \/ /\ EscapeFinally("bus1.shutdown")
               /\ UNCHANGED bus1
       ELSE pc' = "fin_bus2" /\ UNCHANGED << bus1, endv >>
    /\ UNCHANGED << envv, resv, cfgv, pathv, port, bus2, genv, serv, cntv >>

\* main returns (status 0), or the exception that waited for finally goes on
Return ==
    /\ pc' = "done"
    /\ exit_status' = IF pending = NoException THEN 0 ELSE 130
    /\ reports' = IF pending = NoException THEN reports ELSE reports \cup {"KeyboardInterrupt"}
    /\ escaped' = pending
    /\ UNCHANGED << exc, pending >>

\* if bus2: bus2.shutdown(), the last statement of main
FinBus2 ==
    /\ pc = "fin_bus2"
    /\ IF bus2.state # "None"
       THEN \/ /\ bus2' = [bus2 EXCEPT !.state = "shutdown"]
               /\ log' = Append(log, Step("bus2.shutdown", TRUE))
               /\ Return
            \/ /\ EscapeFinally("bus2.shutdown")
               /\ UNCHANGED bus2
       ELSE Return /\ UNCHANGED << bus2, log >>
    /\ UNCHANGED << envv, resv, cfgv, pathv, port, bus1, genv, serv, cntv >>

---------------------------------------------------------------------------
(* Ctrl+C: Python raises KeyboardInterrupt at the statement being executed *)

PrePcs == {"parse", "check_bitrate", "resolve_mgmt", "resolve_can1", "resolve_can2",
           "check_mgmt", "check_can"}

SetupPcs == {"open_port", "write_nl", "drain", "cfg_mode", "cfg_baud", "cfg_read",
             "open_bus1", "open_bus2", "start"}

LoopPcs == {"loop", "send_build", "send_send", "send_report", "recv_recv", "recv_report",
            "lb_build", "lb_report_sent", "lb_send", "lb_recv", "lb_report_recv"}

TryPcs == SetupPcs \cup LoopPcs

HandlerPcs == {"except_kbd", "except_exc"}

FinallyPcs == {"fin_sleep", "fin_port", "fin_reset_in", "fin_reset_out", "fin_close",
               "fin_bus1", "fin_bus2"}

KeyboardInterrupt ==
    /\ pc \in PrePcs \cup TryPcs \cup HandlerPcs \cup FinallyPcs
    /\ IF pc \in TryPcs
       \* caught by except KeyboardInterrupt
       THEN RaiseInTry("KeyboardInterrupt", "KeyboardInterrupt")
       ELSE IF pc \in HandlerPcs
       \* raised inside an except clause: finally runs, then it propagates
       THEN /\ pending' = Raised("KeyboardInterrupt", "KeyboardInterrupt")
            /\ pc' = "fin_sleep"
            /\ UNCHANGED << exc, escaped, exit_status, reports, log >>
       \* before the try, or inside finally (`except Exception` does not catch it):
       \* it leaves main at once
       ELSE /\ Exit(130, "KeyboardInterrupt", Raised("KeyboardInterrupt", "KeyboardInterrupt"))
            /\ UNCHANGED << exc, pending, log >>
    /\ UNCHANGED << envv, resv, cfgv, pathv, handv, genv, serv, cntv >>

---------------------------------------------------------------------------
(* The session *)

Next ==
    \/ Parse \/ CheckBitrate \/ ResolveMgmt \/ ResolveCan1 \/ ResolveCan2
    \/ CheckMgmt \/ CheckCan
    \/ OpenPort \/ WriteNL \/ Drain \/ CfgMode \/ CfgBaud \/ CfgRead
    \/ OpenBus1 \/ OpenBus2 \/ Start \/ Loop
    \/ SendBuild \/ SendSend \/ SendReport
    \/ RecvRecv \/ RecvReport
    \/ LbBuild \/ LbReportSent \/ LbSend \/ LbRecv \/ LbReportRecv
    \/ ExceptKbd \/ ExceptExc
    \/ FinSleep \/ FinPort \/ FinResetIn \/ FinResetOut \/ FinClose
    \/ FinBus1 \/ FinBus2
    \/ KeyboardInterrupt

Spec == Init /\ [][Next]_vars

---------------------------------------------------------------------------
(* A session followed over more than a period of the generator: the        *)
(* adapter's three ports are attached and the request is valid, in any of   *)
(* the three modes.                                                        *)

InitLongSession ==
    /\ all_ports = Listed({MGMT_INFO, CAN1_INFO, CAN2_INFO})
    /\ USE_ARGPARSE = TRUE
    /\ argv \in [m : {<<"send">>, <<"recv">>, <<"loopback">>}, b : {<<1000>>}]
    /\ max_iter = MaxIterLong
    /\ pc = "parse"
    /\ mode = "" /\ bit_rate = -1
    /\ mgmt_port = None /\ can1_port = None /\ can2_port = None
    /\ port = "None" /\ bus1 = NoBus /\ bus2 = NoBus
    /\ interface = ""
    /\ number = 0 /\ is_increment = TRUE /\ data = "" /\ message = NoMessage
    /\ writes = <<>> /\ configured = {}
    /\ exc = NoException /\ pending = NoException /\ escaped = NoException
    /\ exit_status = -1 /\ reports = {} /\ log = <<>>
    /\ iter = 0 /\ n_sent = 0 /\ n_recv1 = 0 /\ n_recv2 = 0
    /\ n_rep_sent = 0 /\ n_rep_recv = 0
    /\ r_dev_id = <<>> /\ r_location = <<>> /\ r_ret = [raised |-> FALSE, value |-> None]
    /\ g_args = NoArgs /\ g_ret = <<>>

SpecLongSession == InitLongSession /\ [][Next]_vars

---------------------------------------------------------------------------
(* get_device_port on its own: one call on a bounded list of ports *)

\* the ports a list may hold: devices 1..MaxPorts, a hardware id of the
\* adapter or of a port without USB information, a location or none
ResolverPortInfos ==
    { PortInfo(n, h, l) : n \in 1..MaxPorts, h \in {HWID_MCU, HWID_NA},
                          l \in {None, LOC_0, LOC_2} }

\* lists of at most MaxPorts ports with distinct device paths, in any order
ResolverPortLists ==
    UNION { { s \in [1..n -> ResolverPortInfos] :
                \A i, j \in 1..n : i # j => s[i].device # s[j].device }
            : n \in 0..MaxPorts }

ResolverDevIds == {MCU_VID_PID, <<"U","S","B">>}

ResolverLocations == {MGMT_LOCATION, CAN1_LOCATION, None, <<>>}

InitResolver ==
    /\ all_ports \in ResolverPortLists
    /\ r_dev_id \in ResolverDevIds
    /\ r_location \in ResolverLocations
    /\ r_ret = [raised |-> FALSE, value |-> None]
    /\ g_args = NoArgs /\ g_ret = <<>>
    /\ max_iter = 0
    /\ pc = "r_call"
    /\ USE_ARGPARSE = TRUE
    /\ argv = [m |-> <<>>, b |-> <<>>]
    /\ mode = "" /\ bit_rate = -1
    /\ mgmt_port = None /\ can1_port = None /\ can2_port = None
    /\ port = "None" /\ bus1 = NoBus /\ bus2 = NoBus
    /\ interface = ""
    /\ number = 0 /\ is_increment = TRUE /\ data = "" /\ message = NoMessage
    /\ writes = <<>> /\ configured = {}
    /\ exc = NoException /\ pending = NoException /\ escaped = NoException
    /\ exit_status = -1 /\ reports = {} /\ log = <<>>
    /\ iter = 0 /\ n_sent = 0 /\ n_recv1 = 0 /\ n_recv2 = 0
    /\ n_rep_sent = 0 /\ n_rep_recv = 0

\* r_ret = get_device_port(r_dev_id, r_location)
ResolverCall ==
    /\ pc = "r_call"
    /\ r_ret' = get_device_port(r_dev_id, r_location, all_ports)
    /\ pc' = "r_done"
    /\ UNCHANGED << envv, r_dev_id, r_location, g_args, g_ret,
                    cfgv, pathv, handv, genv, serv, cntv, endv >>

NextResolver == ResolverCall

SpecResolver == InitResolver /\ [][NextResolver]_vars

---------------------------------------------------------------------------
(* inc_dec_data_string on its own: one call on bounded arguments *)

\* the arguments of a call: low < high and low <= number <= high
GeneratorArgs ==
    { a \in [number : 0..GenMaxHigh, is_increment : BOOLEAN,
             low : 0..GenMaxHigh, high : 0..GenMaxHigh] :
          a.low < a.high /\ a.low <= a.number /\ a.number <= a.high }

InitGenerator ==
    /\ g_args \in GeneratorArgs
    /\ g_ret = <<>>
    /\ pc = "g_call"
    /\ all_ports = <<>> /\ max_iter = 0
    /\ USE_ARGPARSE = TRUE
    /\ argv = [m |-> <<>>, b |-> <<>>]
    /\ mode = "" /\ bit_rate = -1
    /\ mgmt_port = None /\ can1_port = None /\ can2_port = None
    /\ port = "None" /\ bus1 = NoBus /\ bus2 = NoBus
    /\ interface = ""
    /\ number = 0 /\ is_increment = TRUE /\ data = "" /\ message = NoMessage
    /\ writes = <<>> /\ configured = {}
    /\ exc = NoException /\ pending = NoException /\ escaped = NoException
    /\ exit_status = -1 /\ reports = {} /\ log = <<>>
    /\ iter = 0 /\ n_sent = 0 /\ n_recv1 = 0 /\ n_recv2 = 0
    /\ n_rep_sent = 0 /\ n_rep_recv = 0
    /\ r_dev_id = <<>> /\ r_location = <<>> /\ r_ret = [raised |-> FALSE, value |-> None]

\* g_ret = inc_dec_data_string(number, is_increment, low, high)
GeneratorCall ==
    /\ pc = "g_call"
    /\ g_ret' = inc_dec_data_string(g_args.number, g_args.is_increment,
                                    g_args.low, g_args.high)
    /\ pc' = "g_done"
    /\ UNCHANGED << envv, r_dev_id, r_location, r_ret, g_args,
                    cfgv, pathv, handv, genv, serv, cntv, endv >>

NextGenerator == GeneratorCall

SpecGenerator == InitGenerator /\ [][NextGenerator]_vars

---------------------------------------------------------------------------
(* Vocabulary of the claims *)

\* the session got into the try body: the loop never ends by itself, so a
\* session that left the try body left it by an exception
Entered == pc \in TryPcs \cup HandlerPcs \cup FinallyPcs \/ exc.type # "none"

Attempted(name) == \E i \in 1..Len(log) : log[i].step = name

Failed(name) == \E i \in 1..Len(log) : log[i].step = name /\ ~log[i].ok

PortStepFailed ==
    Failed("reset_input_buffer") \/ Failed("reset_output_buffer") \/ Failed("close")

\* Ctrl+C arrived while the finally block was running
InterruptedTeardown == escaped.type = "KeyboardInterrupt" /\ escaped.at \in FinallyPcs

\* the place of a step in the order sleep, reset, reset, close, shutdown, shutdown
StepIndex(name) ==
    CASE name = "sleep"               -> 1
      [] name = "reset_input_buffer"  -> 2
      [] name = "reset_output_buffer" -> 3
      [] name = "close"               -> 4
      [] name = "bus1.shutdown"       -> 5
      [] name = "bus2.shutdown"       -> 6

\* the bitrate the user asked for
RequestedBitrate == IF argv.b = <<>> THEN DEFAULT_BITRATE ELSE argv.b[1]

\* the allowed set, as the claims enumerate it
AllowedBitrates == {10, 20, 50, 100, 125, 250, 500, 750, 1000}

NothingTouched ==
    /\ port = "None" /\ bus1 = NoBus /\ bus2 = NoBus
    /\ writes = <<>> /\ log = <<>>

\* the attached ports hold a port of the adapter at the given location marker
Attached(marker) ==
    \E i \in 1..Len(all_ports) :
        /\ Contains(MCU_VID_PID, all_ports[i].hwid)
        /\ all_ports[i].location # None
        /\ Contains(marker, all_ports[i].location)

---------------------------------------------------------------------------
(* C1: once the session has entered the try body, however it ends, the      *)
(* terminal state has no resource left open: the control port is closed if *)
(* it was opened and every channel handle that was opened is shut down.    *)
(* Stated at its most lenient: a resource whose own release call raised is *)
(* excused, and so is a session whose teardown Ctrl+C cut short.           *)
C1_NoResourceLeftOpen ==
    (pc = "done" /\ Entered /\ ~InterruptedTeardown) =>
        /\ port = "open" => PortStepFailed
        /\ bus1.state = "open" => Failed("bus1.shutdown")
        /\ bus2.state = "open" => Failed("bus2.shutdown")

(* C2: teardown attempts every cleanup step even if an earlier one fails:  *)
(* after a failed control-port reset/close both channel shutdowns are      *)
(* still attempted, and after a failed channel-1 shutdown the channel-2    *)
(* shutdown is still attempted.  (A teardown cut short by Ctrl+C aside.)   *)
C2_EveryStepAttempted ==
    (pc = "done" /\ Entered /\ ~InterruptedTeardown) =>
        /\ (PortStepFailed /\ bus1.state # "None") => Attempted("bus1.shutdown")
        /\ (PortStepFailed /\ bus2.state # "None") => Attempted("bus2.shutdown")
        /\ (Failed("bus1.shutdown") /\ bus2.state # "None") => Attempted("bus2.shutdown")

C5_UnresolvedPortsRejected ==
    /\ (Entered \/ ~NothingTouched) =>
          Truthy(mgmt_port) /\ Truthy(can1_port) /\ Truthy(can2_port)
    /\ pc = "open_port" =>
          Attached(MGMT_LOCATION) /\ Attached(CAN1_LOCATION) /\ Attached(CAN2_LOCATION)
    /\ (pc = "done" /\ ~(Truthy(mgmt_port) /\ Truthy(can1_port) /\ Truthy(can2_port))) =>
          /\ exit_status \notin {-1, 0}
          /\ NothingTouched
          /\ ~Entered

C5_Witness ==
    /\ pc = "done"
    /\ mode = "send"
    /\ Truthy(mgmt_port) /\ Truthy(can1_port) /\ ~Truthy(can2_port)
    /\ "Error: CAN ports necessary for this script" \in reports
    /\ exit_status = 1

C7_TransportErrorExitsNonZero ==
    ( /\ pc = "done"
      /\ exc.type = "Exception"
      /\ exc.at \in {"open_port", "open_bus1", "open_bus2"}
      /\ pending = NoException
      /\ ~InterruptedTeardown )
    => ("An error occurred" \in reports /\ exit_status # 0)

\* the ports of the list that pass both filters, by position
Matching(dev_id, location, ports) ==
    { i \in 1..Len(ports) :
        /\ Contains(dev_id, ports[i].hwid)
        /\ ports[i].location # None
        /\ Contains(location, ports[i].location) }

\* the device path of the first of them in device order, or None
FirstMatch(dev_id, location, ports) ==
    LET M == Matching(dev_id, location, ports)
    IN  IF M = {} THEN None
        ELSE ports[CHOOSE i \in M : \A j \in M : ports[i].device[2] <= ports[j].device[2]].device

(* C8: for every device id, non-empty marker and list of ports (ports      *)
(* without location information included) get_device_port returns the      *)
(* device path of the first port in sorted order that passes both filters, *)
(* or None when there is none, and raises nothing.                         *)
C8_FirstMatchOrNone ==
    (pc = "r_done" /\ Truthy(r_location)) =>
        /\ ~r_ret.raised
        /\ r_ret.value = FirstMatch(r_dev_id, r_location, all_ports)

\* the decimal text of the allowed bitrates
DecimalText(n) ==
    CASE n = 10  -> "10"   [] n = 20  -> "20"   [] n = 50  -> "50"
      [] n = 100 -> "100"  [] n = 125 -> "125"  [] n = 250 -> "250"
      [] n = 500 -> "500"  [] n = 750 -> "750"  [] n = 1000 -> "1000"

ModeLine(ifc) == "set can-mode " \o ifc \o " slcan\r\n"

BaudLine(ifc) == "set can-baudrate " \o ifc \o " " \o DecimalText(bit_rate) \o "\r\n"

Written(line) == \E i \in 1..Len(writes) : writes[i] = line

\* the handle is open and its virtual interface is configured
Ready(bus, ifc) ==
    /\ bus.state = "open"
    /\ ifc \in configured
    /\ Written(ModeLine(ifc)) /\ Written(BaudLine(ifc))

(* C9: a channel handle is sent on or received from only when both         *)
(* configuration commands of its virtual interface have been written and   *)
(* the echo read, and the handle is open; a handle that is None or shut    *)
(* down is never used.                                                     *)
C9_HandleUsedOnlyWhenReady ==
    /\ pc \in {"send_send", "lb_send", "recv_recv"} => Ready(bus1, "VCAN1")
    /\ pc = "lb_recv" => Ready(bus2, "VCAN2")
    /\ (n_sent > 0 \/ n_recv1 > 0) => (bus1.state # "None" /\ "VCAN1" \in configured)
    /\ n_recv2 > 0 => (bus2.state # "None" /\ "VCAN2" \in configured)
    /\ (bus1.state = "shutdown" \/ bus2.state = "shutdown") => pc \in FinallyPcs \cup {"done"}
    /\ exc.what # "AttributeError"

C9_Witness ==
    /\ pc = "lb_recv"
    /\ n_sent = 2 /\ n_recv2 = 1
    /\ Ready(bus1, "VCAN1") /\ Ready(bus2, "VCAN2")

\* the five writes of a session
ExpectedWrites ==
    << "\r\n", ModeLine("VCAN1"), BaudLine("VCAN1"), ModeLine("VCAN2"), BaudLine("VCAN2") >>

(* C10: the writes to the control port are the line terminator, then the   *)
(* mode and bitrate commands of VCAN1, then those of VCAN2, each once and  *)
(* nothing after them; the channel handles are opened only after all five, *)
(* at bit_rate * 1000 bps, channel-1 before channel-2.                     *)
C10_ConfigurationSequence ==
    /\ writes # <<>> =>
          /\ bit_rate \in AllowedBitrates
          /\ Len(writes) <= 5
          /\ writes = SubSeq(ExpectedWrites, 1, Len(writes))
    /\ (bus1.state # "None" \/ bus2.state # "None" \/ pc \in LoopPcs) =>
          writes = ExpectedWrites
    /\ bus1.state # "None" =>
          (bus1.bitrate = bit_rate * 1000 /\ bus1.channel = can1_port)
    /\ bus2.state # "None" =>
          (bus2.bitrate = bit_rate * 1000 /\ bus2.channel = can2_port /\ bus1.state # "None")
    /\ (bus1.state # "None" /\ bit_rate = 1000) => bus1.bitrate = 1000000
    /\ pc \in LoopPcs => (bus1.state = "open" /\ bus2.state = "open")

C10_Witness ==
    /\ pc = "send_send"
    /\ mode = "send" /\ bit_rate = 1000
    /\ writes = << "\r\n", "set can-mode VCAN1 slcan\r\n", "set can-baudrate VCAN1 1000\r\n",
                   "set can-mode VCAN2 slcan\r\n", "set can-baudrate VCAN2 1000\r\n" >>
    /\ bus1.bitrate = 1000000 /\ bus2.bitrate = 1000000

---------------------------------------------------------------------------
(* C11: in loopback mode sends on channel-1 and receives on channel-2       *)
(* alternate strictly, starting with a send: the sends outnumber the       *)
(* channel-2 receives by one while a receive is awaited and by nothing      *)
(* elsewhere, so no frame is sent before the receive of the one before it   *)
(* has returned; the frame handed to the send has id 0x123, extended, and   *)
(* the generator's current payload, the first one being 'hello_1'.          *)
C11_LoopbackAlternates ==
    mode = "loopback" =>
        /\ n_sent - n_recv2 \in {0, 1}
        /\ pc \in {"loop", "lb_build", "lb_report_sent", "lb_send", "lb_report_recv"} =>
              n_sent = n_recv2
        /\ pc = "lb_recv" => n_sent = n_recv2 + 1
        /\ pc \in {"lb_send", "lb_recv"} =>
              /\ message.arbitration_id = 291
              /\ message.is_extended_id
              /\ message.data = data
              /\ data = PayloadText(number)
              /\ iter = n_recv2 + 1
        /\ (pc = "lb_recv" /\ n_sent = 1) => message.data = "hello_1"
        /\ n_recv1 = 0

C11_Witness ==
    /\ mode = "loopback"
    /\ pc = "lb_recv"
    /\ n_sent = 2 /\ n_recv2 = 1
    /\ message.data = "hello_2"

---------------------------------------------------------------------------
\* the decimal text of a counter value, as the claims write it
CounterText(n) ==
    CASE n = 0 -> "0"  [] n = 1 -> "1"  [] n = 2 -> "2"  [] n = 3 -> "3"
      [] n = 4 -> "4"  [] n = 5 -> "5"  [] n = 6 -> "6"  [] n = 7 -> "7"
      [] n = 8 -> "8"  [] n = 9 -> "9"  [] n = 10 -> "10" [] n = 11 -> "11"
      [] OTHER -> "?"

(* C12: for low < high and low <= number <= high, inc_dec_data_string      *)
(* forces the direction Up at low and Down at high and keeps it elsewhere,  *)
(* then moves the number by one in that direction and returns the payload   *)
(* 'hello_<new number>'; (9, True, 0, 9) gives (8, False, 'hello_8') and    *)
(* (0, False, 0, 9) gives (1, True, 'hello_1').                             *)
C12_DirectionFlipsAtBoundary ==
    pc = "g_done" =>
        LET a == g_args
            m == g_ret[1]
            d == g_ret[2]
        IN  /\ Len(g_ret) = 3
            /\ a.number = a.low => d = TRUE
            /\ a.number = a.high => d = FALSE
            /\ a.number \notin {a.low, a.high} => d = a.is_increment
            /\ d => m = a.number + 1
            /\ ~d => m = a.number - 1
            /\ a.low <= m /\ m <= a.high
            /\ g_ret[3] = "hello_" \o CounterText(m)
            /\ a = [number |-> 9, is_increment |-> TRUE, low |-> 0, high |-> 9] =>
                  g_ret = <<8, FALSE, "hello_8">>
            /\ a = [number |-> 0, is_increment |-> FALSE, low |-> 0, high |-> 9] =>
                  g_ret = <<1, TRUE, "hello_1">>

C12_Witness ==
    /\ pc = "g_done"
    /\ g_args = [number |-> 0, is_increment |-> FALSE, low |-> 0, high |-> 9]
    /\ g_ret = <<1, TRUE, "hello_1">>

---------------------------------------------------------------------------
(* C13: over any number of send or loopback iterations, started at 0 going  *)
(* up between 0 and 9, the counter stays within 0..9, the payload is        *)
(* 'hello_' and one digit, 7 bytes and so within the 8 bytes a frame holds  *)
(* (building the frame never fails), and each payload built differs from    *)
(* the one before it.                                                      *)
C13_PayloadAlwaysFits ==
    /\ [](/\ number \in 0..9
          /\ data # "" =>
                /\ data = "hello_" \o CounterText(number)
                /\ Len(data) = 7
                /\ Len(data) <= 8
          /\ message # NoMessage => message.data = data
          /\ exc.what # "ValueError")
    /\ [][(pc \in {"send_build", "lb_build"} /\ pc' \in LoopPcs) =>
              (data' # data /\ number' # number)]_vars

C13_Witness ==
    /\ pc = "lb_recv"
    /\ iter = 20
    /\ number = 2 /\ is_increment /\ data = "hello_2"
    /\ n_sent = 20

---------------------------------------------------------------------------
\* what the except clauses have printed when the finally block is entered
CauseReports ==
    IF pending # NoException THEN {}
    ELSE IF exc.type = "KeyboardInterrupt" THEN {"Operation terminated by user"}
    ELSE IF exc.type = "Exception" THEN {"An error occurred"}
    ELSE {}

PortPcs == {"fin_reset_in", "fin_reset_out", "fin_close"}

(* C14: a failure of reset_input_buffer, reset_output_buffer or close in    *)
(* the teardown is contained: no exception leaves main from these steps,    *)
(* the teardown goes on to the channel shutdowns, what was reported and the *)
(* exit status stay those of the original cause; and the three steps are    *)
(* not attempted at all when the control port is not open.                  *)
C14_PortCleanupContained ==
    /\ escaped.type = "Exception" => escaped.at \notin PortPcs
    /\ PortStepFailed => pc \in {"fin_bus1", "fin_bus2", "done"}
    /\ (PortStepFailed /\ pc \in {"fin_bus1", "fin_bus2"}) =>
          (reports = CauseReports /\ exit_status = -1)
    /\ (PortStepFailed /\ pc = "done" /\ escaped = NoException) =>
          (reports = CauseReports /\ exit_status = 0)
    /\ pc \in PortPcs => port = "open"
    /\ port = "None" =>
          /\ ~Attempted("reset_input_buffer")
          /\ ~Attempted("reset_output_buffer")
          /\ ~Attempted("close")

C14_Witness ==
    /\ pc = "done"
    /\ Failed("close")
    /\ exc.type = "Exception"
    /\ reports = {"An error occurred"}
    /\ exit_status = 0
    /\ escaped = NoException

---------------------------------------------------------------------------
\* the statements of the loop that call the channels or build the frame
LoopCallPcs == {"send_build", "send_send", "recv_recv", "lb_build", "lb_send", "lb_recv"}

\* Ctrl+C arrived in the loop, was caught, and nothing failed or arrived after it
CleanInterrupt ==
    /\ exc.type = "KeyboardInterrupt" /\ exc.at \in LoopPcs
    /\ pending = NoException /\ escaped = NoException

\* a step taken inside the loop stays in it or raises into an except clause
LoopLeftOnlyByException ==
    pc \in LoopPcs =>
        \/ pc' \in LoopPcs
        \/ /\ pc' = "except_kbd"
           /\ exc' = [type |-> "KeyboardInterrupt", at |-> pc, what |-> "KeyboardInterrupt"]
        \/ /\ pc' = "except_exc"
           /\ exc'.type = "Exception" /\ exc'.at = pc
           /\ pc \in LoopCallPcs

(* C15: the loop never ends by itself: a step from inside the loop stays    *)
(* in the loop, or goes to the KeyboardInterrupt clause on Ctrl+C, or to    *)
(* the general clause on an exception of a send, a receive or the building  *)
(* of the frame. Ctrl+C in the loop is never reported as an error; it is    *)
(* reported as 'Operation terminated by user', the finally block runs, and  *)
(* when the teardown itself goes through the exit status is 0.              *)
C15_LoopEndsOnlyByInterruptOrError ==
    /\ [][LoopLeftOnlyByException]_vars
    /\ [][pc = "except_kbd" => pc' = "fin_sleep"]_vars
    /\ [](exc.type = "KeyboardInterrupt" => "An error occurred" \notin reports)
    /\ []((CleanInterrupt /\ pc \in FinallyPcs) =>
              reports = {"Operation terminated by user"})
    /\ []((CleanInterrupt /\ pc = "done") =>
              /\ reports = {"Operation terminated by user"}
              /\ exit_status = 0
              /\ Attempted("sleep") /\ Attempted("bus1.shutdown") /\ Attempted("bus2.shutdown"))

C15_Witness ==
    /\ pc = "done"
    /\ CleanInterrupt
    /\ exc.at = "recv_recv"
    /\ n_recv1 = 2
    /\ exit_status = 0
    /\ reports = {"Operation terminated by user"}

---------------------------------------------------------------------------
(* C16: a frame is reported as 'Sent' only after its send on channel-1 has  *)
(* returned: in send and in loopback mode alike there are never more        *)
(* 'Sent:' reports than sends that returned.                                *)
C16_SentReportedAfterSend ==
    n_rep_sent <= n_sent

---------------------------------------------------------------------------
(* C17: Ctrl+C arriving while the finally block runs does not keep the      *)
(* rest of the cleanup from running: a session whose teardown was           *)
(* interrupted still ends with the control port not open and with no        *)
(* opened channel handle left open.                                        *)
C17_TeardownSurvivesInterrupt ==
    (pc = "done" /\ InterruptedTeardown) =>
        /\ port # "open"
        /\ bus1.state # "open"
        /\ bus2.state # "open"

---------------------------------------------------------------------------
(* C18: whenever the session is inside the loop, in any mode, the control   *)
(* port is open and both channel handles exist and are open, on the paths   *)
(* that were resolved: nothing is closed or shut down before the loop is    *)
(* left, and the loop is not entered with bus1 or bus2 being None, in send  *)
(* and recv mode no more than in loopback mode.                             *)
C18_AllHandlesOpenWhileRunning ==
    pc \in LoopPcs =>
        /\ mode \in {"send", "recv", "loopback"}
        /\ port = "open"
        /\ bus1 # NoBus /\ bus1.state = "open" /\ bus1.channel = can1_port
        /\ bus2 # NoBus /\ bus2.state = "open" /\ bus2.channel = can2_port
        /\ Truthy(can1_port) /\ Truthy(can2_port)
        /\ log = <<>>

C18_Witness ==
    /\ pc = "recv_report"
    /\ mode = "recv"
    /\ n_recv1 = 1
    /\ port = "open" /\ bus1.state = "open" /\ bus2.state = "open"

---------------------------------------------------------------------------
SendPcs == {"send_build", "send_send", "send_report"}

RecvPcs == {"recv_recv", "recv_report"}

LoopbackPcs == {"lb_build", "lb_report_sent", "lb_send", "lb_recv", "lb_report_recv"}

\* what a step may do to the mode, the channels and the control port
ModeFixesOperations ==
    /\ pc # "parse" => mode' = mode
    /\ n_sent' # n_sent =>
          (pc \in {"send_send", "lb_send"} /\ mode \in {"send", "loopback"}
           /\ bus1.state = "open" /\ bus2' = bus2)
    /\ n_recv1' # n_recv1 => (pc = "recv_recv" /\ mode = "recv")
    /\ n_recv2' # n_recv2 => (pc = "lb_recv" /\ mode = "loopback")
    /\ pc \in LoopPcs => writes' = writes

(* C19: the mode, once parsed, never changes, and it fixes the channel      *)
(* operations: send mode never receives, recv mode never sends and          *)
(* receives on channel-1 only, every send is a send on channel-1, and       *)
(* channel-2 is received from in loopback mode only; no step of the loop    *)
(* writes to the control port.                                              *)
C19_ModeFixesOperations ==
    /\ [][ModeFixesOperations]_vars
    /\ [](mode = "send" =>
              (n_recv1 = 0 /\ n_recv2 = 0 /\ n_rep_recv = 0 /\ pc \notin RecvPcs \cup LoopbackPcs))
    /\ [](mode = "recv" =>
              (n_sent = 0 /\ n_recv2 = 0 /\ n_rep_sent = 0 /\ pc \notin SendPcs \cup LoopbackPcs))
    /\ [](mode = "loopback" => (n_recv1 = 0 /\ pc \notin SendPcs \cup RecvPcs))
    /\ [](n_recv2 > 0 => mode = "loopback")
    /\ [](pc \in LoopPcs => Len(writes) = 5)

C19_Witness ==
    /\ mode = "send"
    /\ pc = "send_report"
    /\ n_sent = 2
    /\ n_recv1 = 0 /\ n_recv2 = 0
    /\ Len(writes) = 5

===========================================================================
